---- MODULE Spec2Model ----
(***************************************************************************)
(* The AI Trivia Quiz application controller, in its two variants:         *)
(*   "category" is src/App.tsx (category + difficulty, countdown timer),   *)
(*   "basic"    is the App of src/unnamed/part_000 (difficulty only).      *)
(*                                                                         *)
(* React state is modelled by one variable per useState cell.  A click     *)
(* handler is one step: React renders a discrete event synchronously and   *)
(* flushes the effects of that render before returning to the event loop.  *)
(* An update made from a timer callback or from a promise continuation is  *)
(* committed first; the passive timer effect of that commit is the next    *)
(* step (TimerEffect), and nothing else runs before it.                    *)
(*                                                                         *)
(* Strings that the code builds by concatenation are sequences of their    *)
(* pieces; the null of a string-valued message is the empty sequence.      *)
(***************************************************************************)
EXTENDS Integers, Sequences, FiniteSets, TLC

\* ------------------------------------------------------------------ bounds
\* number of generateTriviaQuestion calls one behaviour may issue
MaxFetches == 2

\* ------------------------------------------------------- program constants
TIME_LIMIT == 15

NULL == "null"
UNDEFINED == "undefined"

AnswerKey == {"A", "B", "C", "D"}

Difficulty == {"Easy", "Medium", "Hard"}

\* the fixed menu of CategorySelector (labels are opaque to the controller)
Categories == {"Science", "History"}

NoError == <<>>

Options(a, b, c, d) == [A |-> a, B |-> b, C |-> c, D |-> d]

\* the value null of question: TriviaQuestion | null
NoQuestion == [id |-> 0, question |-> NULL, options |-> Options("", "", "", ""), correctAnswer |-> NULL]

\* question?.correctAnswer
correctAnswerOf(q) == IF q = NoQuestion THEN UNDEFINED ELSE q.correctAnswer

\* ------------------------------------------------ the question endpoint
\* A JSON body of the endpoint: qType and oType are the typeof of the
\* fields question and options ("null" for the value null).
Data(qType, q, oType, o, k) ==
    [qType |-> qType, question |-> q, oType |-> oType, options |-> o, correctAnswer |-> k]

FourOptions == Options("3", "4", "5", "6")

Payloads ==
    {Data("string", "2+2?", "object", FourOptions, k) : k \in AnswerKey}
    \cup {Data("string", "", "object", FourOptions, "B"),
          Data("number", "2+2?", "object", FourOptions, "B"),
          Data("string", "2+2?", "object", Options("3", "4", "5", ""), "B"),
          Data("string", "2+2?", "undefined", Options("", "", "", ""), "B"),
          Data("string", "2+2?", "null", Options("", "", "", ""), "B"),
          Data("string", "2+2?", "object", FourOptions, "E")}

NoData == Data("undefined", "", "undefined", Options("", "", "", ""), UNDEFINED)

\* What the fetch of the endpoint delivers: network is FALSE when fetch()
\* itself rejects; parses is FALSE when response.json() rejects; error is
\* the body's error field (empty when the field is absent or "").
Response(network, ok, status, parses, err, data) ==
    [network |-> network, ok |-> ok, status |-> status, parses |-> parses,
     error |-> err, data |-> data]

NoResponse == Response(FALSE, FALSE, 0, FALSE, <<>>, NoData)

ErrorStatuses == {500, 404}

Responses ==
    {NoResponse}
    \cup {Response(TRUE, FALSE, st, FALSE, <<>>, NoData) : st \in ErrorStatuses}
    \cup {Response(TRUE, FALSE, st, TRUE, e, NoData) :
              st \in ErrorStatuses, e \in {<<>>, <<"rate limited">>}}
    \cup {Response(TRUE, TRUE, 200, FALSE, <<>>, NoData)}
    \cup {Response(TRUE, TRUE, 200, TRUE, <<>>, d) : d \in Payloads}

\* The settled promise of generateTriviaQuestion: fulfilled with a question
\* (ok) or rejected with an Error carrying message.
Fulfilled(q) == [ok |-> TRUE, value |-> q, message |-> <<>>]

Rejected(m) == [ok |-> FALSE, value |-> NoQuestion, message |-> m]

NoOutcome == Rejected(<<>>)

\* `data as TriviaQuestion`
asTriviaQuestion(d) ==
    [id |-> 0, question |-> d.question, options |-> d.options, correctAnswer |-> d.correctAnswer]

\* the shape test of generateTriviaQuestion
isValidData(d) ==
    /\ d.qType = "string"
    /\ d.oType = "object"
    /\ d.options.A # "" /\ d.options.B # "" /\ d.options.C # "" /\ d.options.D # ""
    /\ d.correctAnswer \in {"A", "B", "C", "D"}

\* errorData?.error || `Server responded with status ${response.status}`
serverMessage(r) ==
    IF r.parses /\ r.error # <<>>
    THEN r.error
    ELSE <<"Server responded with status ", ToString(r.status)>>

\* the body of the try block: the outcome before the catch rewraps it
tryGenerate(r) ==
    IF ~r.network THEN Rejected(<<"Failed to fetch">>)
    ELSE IF ~r.ok THEN Rejected(serverMessage(r))
    ELSE IF ~r.parses THEN Rejected(<<"Unexpected end of JSON input">>)
    ELSE IF r.data.qType = "string" /\ r.data.oType = "null"
         THEN Rejected(<<"Cannot read properties of null">>)
    ELSE IF isValidData(r.data) THEN Fulfilled(asTriviaQuestion(r.data))
    ELSE Rejected(<<"The API returned data in an unexpected format.">>)

\* mutant: the catch block rethrows the error as it is
rewrap_NoPrefix(o) == o

\* the catch block: throw new Error(`Could not load question. ${errorMessage}`)
rewrap(o) ==
    IF o.ok THEN o ELSE Rejected(<<"Could not load question. ">> \o o.message)

generateTriviaQuestion(r) == rewrap(tryGenerate(r))

\* What the imported generateTriviaQuestion(difficulty, category) of the
\* category variant can settle to: a TriviaQuestion or a rejection.
TriviaQuestions ==
    {[id |-> 0, question |-> "2+2?", options |-> FourOptions, correctAnswer |-> k] :
        k \in {"B", "D"}}

ServiceOutcomes ==
    {Fulfilled(q) : q \in TriviaQuestions}
    \cup {Rejected(<<"rate limited">>), Rejected(<<"Could not load question. ", "rate limited">>)}

\* ---------------------------------------------------------------- state
VARIABLES
    variant,         \* "category" (src/App.tsx) or "basic" (part_000)
    question,        \* useState<TriviaQuestion | null>
    score,           \* useState<number>
    isLoading,       \* useState<boolean>
    error,           \* useState<string | null>
    selectedAnswer,  \* useState<AnswerKey | null>
    isAnswered,      \* useState<boolean>
    category,        \* useState<string | null>      (category variant)
    difficulty,      \* useState<Difficulty | null>
    timeLeft,        \* useState<number>             (category variant)
    pending,         \* generateTriviaQuestion calls awaiting their result
    issued,          \* number of generateTriviaQuestion calls made so far
    intervals,       \* number of live setInterval timers
    cleanup,         \* the last run of the timer effect returned clearInterval
    effectDue,       \* a commit changed the timer effect's deps; it runs next
    lastEvent,       \* the step just taken
    lastFetch,       \* the call whose result the step just taken applied
    lastOutcome,     \* ... and what generateTriviaQuestion settled to
    lastResponse,    \* ... and the endpoint's response (basic variant)
    prevScore,       \* score before the step just taken
    delivered,       \* calls fulfilled since the last setScore(0)
    props,           \* QuizCard: the props of its last render
    buttons,         \* QuizCard: the option buttons it rendered
    answerDelivered, \* QuizCard: the last key passed to onAnswerSelect
    swState,         \* service worker: its lifecycle state
    caches,          \* service worker: CacheStorage, cache name -> cached URLs
    puts,            \* service worker: cache.put calls not yet completed
    swLast           \* service worker: the event just handled

vars == <<variant, question, score, isLoading, error, selectedAnswer, isAnswered,
          category, difficulty, timeLeft, pending, issued, intervals, cleanup,
          effectDue, lastEvent, lastFetch, lastOutcome, lastResponse, prevScore,
          delivered, props, buttons, answerDelivered, swState, caches, puts, swLast>>

appVars == <<variant, question, score, isLoading, error, selectedAnswer, isAnswered,
             category, difficulty, timeLeft, pending, issued, intervals, cleanup,
             effectDue, lastEvent, lastFetch, lastOutcome, lastResponse, prevScore,
             delivered>>

cardVars == <<props, buttons, answerDelivered>>

swVars == <<swState, caches, puts, swLast>>

NoFetch == [id |-> 0, difficulty |-> NULL, category |-> NULL]

\* The component's state as one value, so that a handler, the renders it
\* causes and their effects compose.
Cur ==
    [question |-> question, score |-> score, isLoading |-> isLoading, error |-> error,
     selectedAnswer |-> selectedAnswer, isAnswered |-> isAnswered,
     category |-> category, difficulty |-> difficulty, timeLeft |-> timeLeft,
     pending |-> pending, issued |-> issued, intervals |-> intervals,
     cleanup |-> cleanup]

Commit(s) ==
    /\ question' = s.question
    /\ score' = s.score
    /\ isLoading' = s.isLoading
    /\ error' = s.error
    /\ selectedAnswer' = s.selectedAnswer
    /\ isAnswered' = s.isAnswered
    /\ category' = s.category
    /\ difficulty' = s.difficulty
    /\ timeLeft' = s.timeLeft
    /\ pending' = s.pending
    /\ issued' = s.issued
    /\ intervals' = s.intervals
    /\ cleanup' = s.cleanup

\* The events whose handler calls setScore(0).
scoreResets ==
    IF variant = "category"
    THEN {"categorySelected", "difficultySelected", "changeCategoryRequested",
          "changeDifficultyRequested"}
    ELSE {"difficultySelected"}

Step(event, fetch, outcome, response) ==
    /\ delivered' = IF event \in scoreResets THEN 0
                    ELSE IF event = "fetchSucceeded" THEN delivered + 1
                    ELSE delivered
    /\ lastEvent' = event
    /\ lastFetch' = fetch
    /\ lastOutcome' = outcome
    /\ lastResponse' = response
    /\ prevScore' = score
    /\ variant' = variant
    /\ UNCHANGED <<cardVars, swVars>>

Click(event) == Step(event, NoFetch, NoOutcome, NoResponse)

\* ------------------------------------------- category variant: src/App.tsx
\* fetchNewQuestion up to its await
fetchNewQuestion(s) ==
    IF s.difficulty = NULL \/ s.category = NULL THEN s
    ELSE [s EXCEPT !.isLoading = TRUE,
                   !.error = NoError,
                   !.selectedAnswer = NULL,
                   !.isAnswered = FALSE,
                   !.question = NoQuestion,
                   !.issued = @ + 1,
                   !.pending = @ \cup {[id |-> s.issued + 1,
                                        difficulty |-> s.difficulty,
                                        category |-> s.category]}]

\* mutant: isLoading is cleared in the try block only, not in finally
fetchSettled_LoadingStuckOnFailure(s, f, o) ==
    IF o.ok
    THEN [s EXCEPT !.question = [o.value EXCEPT !.id = f.id],
                   !.timeLeft = TIME_LIMIT, !.isLoading = FALSE,
                   !.pending = @ \ {f}]
    ELSE [s EXCEPT !.error = <<"Failed to generate a new question. Please try again.">>,
                   !.pending = @ \ {f}]

\* fetchNewQuestion from its await on: call f settled to outcome o
fetchSettled(s, f, o) ==
    LET t == IF o.ok
             THEN [s EXCEPT !.question = [o.value EXCEPT !.id = f.id],
                            !.timeLeft = TIME_LIMIT]
             ELSE [s EXCEPT !.error = <<"Failed to generate a new question. Please try again.">>]
    IN [t EXCEPT !.isLoading = FALSE, !.pending = @ \ {f}]

\* useEffect(() => { if (difficulty && category) fetchNewQuestion() },
\*           [difficulty, category, fetchNewQuestion])
\* fetchNewQuestion is a useCallback over [difficulty, category].
fetchEffect(prev, s) ==
    IF <<prev.difficulty, prev.category>> = <<s.difficulty, s.category>> THEN s
    ELSE IF s.difficulty # NULL /\ s.category # NULL THEN fetchNewQuestion(s)
    ELSE s

timerDeps(s) == <<s.timeLeft, s.isAnswered, s.question, s.isLoading>>

\* mutant: the expiry test is timeLeft < 0
timerExpires_BelowZero(s) ==
    /\ ~(s.question = NoQuestion \/ s.isAnswered \/ s.isLoading)
    /\ s.timeLeft < 0

\* the timer effect reaches setIsAnswered(true)
timerExpires(s) ==
    /\ ~(s.question = NoQuestion \/ s.isAnswered \/ s.isLoading)
    /\ s.timeLeft <= 0

\* mutant: the guard of the timer effect does not test isAnswered
timerStarts_IgnoresAnswered(s) ==
    /\ ~(s.question = NoQuestion \/ s.isLoading)
    /\ ~(s.timeLeft <= 0)

\* mutant: the timer effect starts the interval whatever timeLeft is
timerStarts_IgnoresExpiry(s) ==
    ~(s.question = NoQuestion \/ s.isAnswered \/ s.isLoading)

\* the timer effect reaches setInterval
timerStarts(s) ==
    /\ ~(s.question = NoQuestion \/ s.isAnswered \/ s.isLoading)
    /\ ~(s.timeLeft <= 0)

\* mutant: the effect returns no cleanup, the old interval stays live
timerCleanup_Leaks(s) == [s EXCEPT !.cleanup = FALSE]

\* the cleanup of the effect's previous run: clearInterval(timerId)
timerCleanup(s) ==
    IF s.cleanup THEN [s EXCEPT !.intervals = @ - 1, !.cleanup = FALSE] ELSE s

\* one run of the timer effect: the previous run's cleanup, then the body
timerEffect(s) ==
    LET c == timerCleanup(s)
    IN IF timerStarts(c) THEN [c EXCEPT !.intervals = @ + 1, !.cleanup = TRUE]
       ELSE IF timerExpires(c) THEN [c EXCEPT !.isAnswered = TRUE]
       ELSE c

\* The effects of a synchronous render: prev is the state of the previous
\* commit, s the state committed now.  The fetch effect is declared first;
\* the timer effect runs again for as long as its deps keep changing.
RECURSIVE flushTimer(_, _)
flushTimer(prev, s) ==
    IF timerDeps(prev) = timerDeps(s) THEN s ELSE flushTimer(s, timerEffect(s))

\* t: the timer effect of this commit (if its deps changed); u: the updates
\* the fetch effect queued in the same flush; v: the commit of both, a
\* setIsAnswered(true) of the timer effect being queued last.
flushEffects(prev, s) ==
    LET t == IF timerDeps(prev) = timerDeps(s) THEN s ELSE timerEffect(s)
        u == fetchEffect(prev, [t EXCEPT !.isAnswered = s.isAnswered])
        v == IF t.isAnswered # s.isAnswered THEN [u EXCEPT !.isAnswered = TRUE] ELSE u
    IN flushTimer(s, v)

\* mutant: the handler does not test isAnswered
handleAnswerSelect_NoGuard(s, answer) ==
    [s EXCEPT !.selectedAnswer = answer,
              !.isAnswered = TRUE,
              !.score = IF answer = correctAnswerOf(s.question) THEN @ + 1 ELSE @]

\* mutant: the score grows on every answer
handleAnswerSelect_AlwaysScores(s, answer) ==
    IF s.isAnswered THEN s
    ELSE [s EXCEPT !.selectedAnswer = answer, !.isAnswered = TRUE, !.score = @ + 1]

\* mutant: the handler does not close the round
handleAnswerSelect_StaysOpen(s, answer) ==
    IF s.isAnswered THEN s
    ELSE [s EXCEPT !.selectedAnswer = answer,
                   !.score = IF answer = correctAnswerOf(s.question) THEN @ + 1 ELSE @]

handleAnswerSelect(s, answer) ==
    IF s.isAnswered THEN s
    ELSE [s EXCEPT !.selectedAnswer = answer,
                   !.isAnswered = TRUE,
                   !.score = IF answer = correctAnswerOf(s.question) THEN @ + 1 ELSE @]

handleCategorySelect(s, selectedCategory) ==
    [s EXCEPT !.category = selectedCategory, !.difficulty = NULL, !.score = 0]

handleDifficultySelect(s, selectedDifficulty) ==
    [s EXCEPT !.score = 0, !.difficulty = selectedDifficulty]

\* mutant: Change Category leaves the difficulty selected
resetCategory_KeepsDifficulty(s) ==
    [s EXCEPT !.category = NULL, !.question = NoQuestion, !.score = 0]

resetCategory(s) ==
    [s EXCEPT !.category = NULL, !.difficulty = NULL, !.question = NoQuestion, !.score = 0]

\* mutant: Change Difficulty keeps the score
resetDifficulty_KeepsScore(s) ==
    [s EXCEPT !.difficulty = NULL, !.question = NoQuestion]

resetDifficulty(s) ==
    [s EXCEPT !.difficulty = NULL, !.question = NoQuestion, !.score = 0]

\* renderContent reaches <CategorySelector>
categoryScreenShown(s) == s.category = NULL

\* renderContent reaches <DifficultySelector>
difficultyScreenShown(s) == s.category # NULL /\ s.difficulty = NULL

\* the footer renders the Change Category button
changeCategoryShown(s) == s.category # NULL

\* the footer renders the Change Difficulty button
changeDifficultyShown(s) == s.category # NULL /\ s.difficulty # NULL

\* renderContent reaches <QuizCard>
quizCardShown(s) ==
    /\ s.category # NULL
    /\ s.difficulty # NULL
    /\ ~s.isLoading
    /\ s.error = NoError
    /\ s.question # NoQuestion

\* renderContent reaches the error panel
errorShown(s) ==
    /\ s.category # NULL
    /\ s.difficulty # NULL
    /\ ~s.isLoading
    /\ s.error # NoError

\* the Next Question / Skip Question button is rendered and not disabled
nextButtonEnabled(s) == s.difficulty # NULL /\ ~s.isLoading

\* A click whose handler leads to s can be handled now: no effect is
\* pending, and the calls it issues are within the bound of the model.
clickHandled(s) ==
    /\ variant = "category"
    /\ ~effectDue
    /\ flushEffects(Cur, s).issued <= MaxFetches

\* A click: the handler, the synchronous render and its effects.
Discrete(event, s) ==
    LET r == flushEffects(Cur, s)
    IN /\ clickHandled(s)
       /\ Commit(r)
       /\ effectDue' = FALSE
       /\ Click(event)

CategorySelect(c) ==
    /\ categoryScreenShown(Cur)
    /\ Discrete("categorySelected", handleCategorySelect(Cur, c))

DifficultySelect(d) ==
    /\ difficultyScreenShown(Cur)
    /\ Discrete("difficultySelected", handleDifficultySelect(Cur, d))

AnswerSelect(k) ==
    /\ quizCardShown(Cur) /\ ~isAnswered
    /\ Discrete("answerSelected", handleAnswerSelect(Cur, k))

\* handleAnswerSelect called for a round that is already answered (the
\* option buttons are disabled then; the handler has its own test)
AnswerSelectAgain(k) ==
    /\ quizCardShown(Cur) /\ isAnswered
    /\ Discrete("answerSelected", handleAnswerSelect(Cur, k))

NextRequested ==
    /\ nextButtonEnabled(Cur)
    /\ Discrete("nextRequested", fetchNewQuestion(Cur))

ChangeCategoryRequested ==
    /\ changeCategoryShown(Cur)
    /\ Discrete("changeCategoryRequested", resetCategory(Cur))

ChangeDifficultyRequested ==
    /\ changeDifficultyShown(Cur)
    /\ Discrete("changeDifficultyRequested", resetDifficulty(Cur))

\* A commit made outside a click: its timer effect is the next step.
Deferred(s) ==
    /\ ~effectDue
    /\ Commit(s)
    /\ effectDue' = (variant = "category" /\ timerDeps(s) # timerDeps(Cur))

\* the interval callback: setTimeLeft(prevTime => prevTime - 1)
tick(s) == [s EXCEPT !.timeLeft = @ - 1]

Tick ==
    /\ variant = "category"
    /\ intervals > 0
    /\ Deferred(tick(Cur))
    /\ Step("tick", NoFetch, NoOutcome, NoResponse)

TimerEffect ==
    LET s == timerEffect(Cur)
    IN /\ variant = "category"
       /\ effectDue
       /\ Commit(s)
       /\ effectDue' = (timerDeps(s) # timerDeps(Cur))
       /\ Step(IF s.isAnswered # isAnswered THEN "timeUp" ELSE "timerEffect",
               NoFetch, NoOutcome, NoResponse)

FetchSettle(f, o) ==
    /\ variant = "category"
    /\ f \in pending
    /\ Deferred(fetchSettled(Cur, f, o))
    /\ Step(IF o.ok THEN "fetchSucceeded" ELSE "fetchFailed", f, o, NoResponse)

\* --------------------------------- basic variant: src/unnamed/part_000 App
\* fetchNewQuestion up to its await
Basic_fetchNewQuestion(s) ==
    IF s.difficulty = NULL THEN s
    ELSE [s EXCEPT !.isLoading = TRUE,
                   !.error = NoError,
                   !.selectedAnswer = NULL,
                   !.isAnswered = FALSE,
                   !.question = NoQuestion,
                   !.issued = @ + 1,
                   !.pending = @ \cup {[id |-> s.issued + 1,
                                        difficulty |-> s.difficulty,
                                        category |-> NULL]}]

\* fetchNewQuestion from its await on: call f settled to outcome o
Basic_fetchSettled(s, f, o) ==
    LET t == IF o.ok
             THEN [s EXCEPT !.question = [o.value EXCEPT !.id = f.id]]
             ELSE [s EXCEPT !.error = o.message]
    IN [t EXCEPT !.isLoading = FALSE, !.pending = @ \ {f}]

\* useEffect(() => { if (difficulty) fetchNewQuestion() }, [difficulty, fetchNewQuestion])
Basic_fetchEffect(prev, s) ==
    IF prev.difficulty = s.difficulty THEN s
    ELSE IF s.difficulty # NULL THEN Basic_fetchNewQuestion(s)
    ELSE s

Basic_handleAnswerSelect(s, answer) ==
    IF s.isAnswered THEN s
    ELSE [s EXCEPT !.selectedAnswer = answer,
                   !.isAnswered = TRUE,
                   !.score = IF answer = correctAnswerOf(s.question) THEN @ + 1 ELSE @]

Basic_handleDifficultySelect(s, selectedDifficulty) ==
    [s EXCEPT !.score = 0, !.difficulty = selectedDifficulty]

\* the Change Difficulty button: onClick={() => setDifficulty(null)}
Basic_changeDifficulty(s) == [s EXCEPT !.difficulty = NULL]

\* renderContent reaches the error panel with its Try Again button
Basic_errorShown(s) ==
    /\ s.difficulty # NULL
    /\ ~(s.isLoading /\ s.question = NoQuestion)
    /\ s.error # NoError

\* renderContent reaches <QuizCard>; the spinner overlay is not over it
Basic_quizCardShown(s) ==
    /\ s.difficulty # NULL
    /\ ~s.isLoading
    /\ s.error = NoError
    /\ s.question # NoQuestion

\* the Next Question button is rendered and not disabled
Basic_nextButtonEnabled(s) == s.difficulty # NULL /\ s.error = NoError /\ ~s.isLoading

\* the Try Again button is rendered and not disabled
Basic_tryAgainEnabled(s) == Basic_errorShown(s) /\ ~s.isLoading

Basic_Discrete(event, s) ==
    LET r == Basic_fetchEffect(Cur, s)
    IN /\ variant = "basic"
       /\ r.issued <= MaxFetches
       /\ Commit(r)
       /\ effectDue' = FALSE
       /\ Click(event)

Basic_DifficultySelect(d) ==
    /\ difficulty = NULL
    /\ Basic_Discrete("difficultySelected", Basic_handleDifficultySelect(Cur, d))

Basic_AnswerSelect(k) ==
    /\ Basic_quizCardShown(Cur) /\ ~isAnswered
    /\ Basic_Discrete("answerSelected", Basic_handleAnswerSelect(Cur, k))

Basic_AnswerSelectAgain(k) ==
    /\ Basic_quizCardShown(Cur) /\ isAnswered
    /\ Basic_Discrete("answerSelected", Basic_handleAnswerSelect(Cur, k))

Basic_NextRequested ==
    /\ Basic_nextButtonEnabled(Cur)
    /\ Basic_Discrete("nextRequested", Basic_fetchNewQuestion(Cur))

Basic_TryAgain ==
    /\ Basic_tryAgainEnabled(Cur)
    /\ Basic_Discrete("retryRequested", Basic_fetchNewQuestion(Cur))

Basic_ChangeDifficultyRequested ==
    /\ difficulty # NULL
    /\ Basic_Discrete("changeDifficultyRequested", Basic_changeDifficulty(Cur))

Basic_FetchSettle(f, r) ==
    LET o == generateTriviaQuestion(r)
    IN /\ variant = "basic"
       /\ f \in pending
       /\ Deferred(Basic_fetchSettled(Cur, f, o))
       /\ Step(IF o.ok THEN "fetchSucceeded" ELSE "fetchFailed", f, o, r)

\* ---------------------------------------------------------------- QuizCard
\* The props QuizCard reads to draw its option buttons: question.correctAnswer,
\* selectedAnswer and isAnswered.
QuizCardProps ==
    [correctAnswer : AnswerKey, selectedAnswer : AnswerKey \cup {NULL},
     isAnswered : BOOLEAN]

\* The four class lists, named by what they show: "neutral" (bg-white/20,
\* hover), "correct" (green, pulse), "incorrect" (red, shake), "faded"
\* (bg-white/10, opacity-60).
getButtonClass_SelectedFirst(optionKey, p) ==
    LET isCorrect == optionKey = p.correctAnswer
        isSelected == optionKey = p.selectedAnswer
    IN IF ~p.isAnswered THEN "neutral"
       ELSE IF isSelected THEN "incorrect"
       ELSE IF isCorrect THEN "correct"
       ELSE "faded"

getButtonClass(optionKey, p) ==
    LET isCorrect == optionKey = p.correctAnswer
        isSelected == optionKey = p.selectedAnswer
    IN IF ~p.isAnswered THEN "neutral"
       ELSE IF isCorrect THEN "correct"
       ELSE IF isSelected /\ ~isCorrect THEN "incorrect"
       ELSE "faded"

\* One button per key of question.options.
renderButtons(p) ==
    [key \in AnswerKey |->
        [className |-> getButtonClass(key, p), disabled |-> p.isAnswered]]

\* The card as the app's own specification leaves it: drawn once, unused.
QuizCard_Idle ==
    /\ props = [correctAnswer |-> "A", selectedAnswer |-> NULL, isAnswered |-> FALSE]
    /\ buttons = renderButtons(props)
    /\ answerDelivered = NULL

QuizCard_Mounted ==
    /\ props \in QuizCardProps
    /\ buttons = renderButtons(props)
    /\ answerDelivered = NULL

\* The parent renders the card again, with any props.
QuizCard_Render(p) ==
    /\ props' = p
    /\ buttons' = renderButtons(p)
    /\ UNCHANGED <<answerDelivered, appVars, swVars>>

\* A click on an option button; a disabled button delivers no click.
QuizCard_Click(key) ==
    /\ ~buttons[key].disabled
    /\ answerDelivered' = key
    /\ UNCHANGED <<props, buttons, appVars, swVars>>

\* ---------------------------------------------------------------- service worker
CACHE_NAME == "ai-trivia-quiz-v5"

\* Names of caches that earlier versions of the worker may have left.
OldCacheNames == {"ai-trivia-quiz-v4", "ai-trivia-quiz-v3"}

\* A URL is the sequence of pieces its text falls into at each "/":
\* "/index.html" is <<"", "index.html">>, "/" is <<"", "">>.
urlsToCache ==
    { <<"", "">>, <<"", "index.html">>, <<"", "index.tsx">>, <<"", "App.tsx">>,
      <<"", "manifest.json">>, <<"", "icon.svg">>,
      <<"https:", "", "cdn.tailwindcss.com">> }

IndexHtml == <<"", "index.html">>
LogoPng == <<"", "logo.png">>
FaviconIco == <<"", "favicon.ico">>
ApiQuestion == <<"", "api", "generate-question">>
DocsApiGuide == <<"", "docs", "api", "guide.html">>

\* The URLs the pages request.
RequestUrls == {IndexHtml, LogoPng, FaviconIco, ApiQuestion, DocsApiGuide}

Requests == [method : {"GET", "POST"}, url : RequestUrls]

NoRequest == [method |-> NULL, url |-> <<>>]

\* What fetch(request) settles to: a response with this status, or a
\* rejection (NetworkFailure).
NetworkFailure == 0
NetworkResults == {200, 404, NetworkFailure}

\* url.includes('/api/'): a piece "api" with a "/" on both sides.
urlIncludesApi(url) == \E i \in 2..(Len(url) - 1) : url[i] = "api"

\* CacheStorage: cache name -> the URLs that cache holds a response for.
NoCaches == [n \in {} |-> {}]

cachesOpen(cs, name) ==
    [n \in DOMAIN cs \cup {name} |-> IF n \in DOMAIN cs THEN cs[n] ELSE {}]

cachesMatch(cs, url) == \E n \in DOMAIN cs : url \in cs[n]

cachePut(cs, name, urls) == [cs EXCEPT ![name] = @ \cup urls]

\* What the worker finds in CacheStorage when it is installed.
InitialCaches ==
    { NoCaches,
      [n \in {"ai-trivia-quiz-v4"} |-> {IndexHtml, ApiQuestion}],
      [n \in OldCacheNames |-> {IndexHtml, LogoPng}],
      [n \in {CACHE_NAME, "ai-trivia-quiz-v4"} |->
          IF n = CACHE_NAME THEN {FaviconIco} ELSE {IndexHtml}] }

NoSwEvent ==
    [event |-> "none", req |-> NoRequest, handled |-> FALSE, hit |-> FALSE,
     source |-> "none", status |-> NetworkFailure, deleted |-> {}]

\* install: caches.open(CACHE_NAME), then cache.addAll(urlsToCache), which
\* stores all of the list or, when a request of it fails, nothing.
install(cs, added) ==
    LET opened == cachesOpen(cs, CACHE_NAME)
    IN IF added THEN cachePut(opened, CACHE_NAME, urlsToCache) ELSE opened

\* activate: every cache whose name is not in cacheWhitelist is deleted.
activate_DeletesNothing(cs) == cs

activate(cs) ==
    LET cacheWhitelist == {CACHE_NAME}
    IN [n \in DOMAIN cs \cap cacheWhitelist |-> cs[n]]

\* The fetch listener, for a request and what the network would answer:
\* whether it calls respondWith, where the response comes from, its status,
\* and whether a cache.put of it is started.
Served(handled, hit, source, status, store) ==
    [handled |-> handled, hit |-> hit, source |-> source, status |-> status,
     store |-> store]

fetchListener_NoApiCheck(cs, req, net) ==
    IF req.method # "GET"
    THEN Served(FALSE, cachesMatch(cs, req.url), "network", net, FALSE)
    ELSE IF cachesMatch(cs, req.url)
    THEN Served(TRUE, TRUE, "cache", 200, FALSE)
    ELSE Served(TRUE, FALSE, "network", net, net = 200)

fetchListener_StoresAny(cs, req, net) ==
    IF req.method # "GET"
    THEN Served(FALSE, cachesMatch(cs, req.url), "network", net, FALSE)
    ELSE IF urlIncludesApi(req.url)
    THEN Served(TRUE, cachesMatch(cs, req.url), "network", net, FALSE)
    ELSE IF cachesMatch(cs, req.url)
    THEN Served(TRUE, TRUE, "cache", 200, FALSE)
    ELSE Served(TRUE, FALSE, "network", net, net # NetworkFailure)

fetchListener(cs, req, net) ==
    IF req.method # "GET"
    THEN Served(FALSE, cachesMatch(cs, req.url), "network", net, FALSE)
    ELSE IF urlIncludesApi(req.url)
    THEN Served(TRUE, cachesMatch(cs, req.url), "network", net, FALSE)
    ELSE IF cachesMatch(cs, req.url)
    THEN Served(TRUE, TRUE, "cache", 200, FALSE)
    ELSE Served(TRUE, FALSE, "network", net, net = 200)

\* The worker as the app's own specification leaves it: not registered.
SW_Idle ==
    /\ swState = "parsed"
    /\ caches = NoCaches
    /\ puts = {}
    /\ swLast = NoSwEvent

SW_Registered ==
    /\ swState = "parsed"
    /\ caches \in InitialCaches
    /\ puts = {}
    /\ swLast = NoSwEvent

\* The install event; a failed install makes the worker redundant.
SW_Install(added) ==
    /\ swState = "parsed"
    /\ caches' = install(caches, added)
    /\ swState' = IF added THEN "installed" ELSE "redundant"
    /\ swLast' = [NoSwEvent EXCEPT !.event = "install"]
    /\ UNCHANGED <<puts, appVars, cardVars>>

\* The activate event: skipWaiting() lets it follow the install at once,
\* and fetch events are held back until it has completed.
SW_Activate ==
    /\ swState = "installed"
    /\ caches' = activate(caches)
    /\ swState' = "activated"
    /\ swLast' = [NoSwEvent EXCEPT !.event = "activate",
                                   !.deleted = DOMAIN caches \ DOMAIN activate(caches)]
    /\ UNCHANGED <<puts, appVars, cardVars>>

\* A fetch event, up to the response; the cache.put it starts is not
\* awaited and completes in a step of its own.
SW_Fetch(req, net) ==
    LET r == fetchListener(caches, req, net)
    IN /\ swState = "activated"
       /\ puts' = IF r.store THEN puts \cup {req.url} ELSE puts
       /\ swLast' = [event |-> "fetch", req |-> req, handled |-> r.handled,
                     hit |-> r.hit, source |-> r.source, status |-> r.status,
                     deleted |-> {}]
       /\ UNCHANGED <<swState, caches, appVars, cardVars>>

\* caches.open(CACHE_NAME).then(cache => cache.put(request, response))
SW_PutDone(url) ==
    /\ url \in puts
    /\ caches' = cachePut(cachesOpen(caches, CACHE_NAME), CACHE_NAME, {url})
    /\ puts' = puts \ {url}
    /\ swLast' = [NoSwEvent EXCEPT !.event = "put",
                                   !.req = [method |-> "GET", url |-> url]]
    /\ UNCHANGED <<swState, appVars, cardVars>>

AppInit ==
    /\ variant \in {"category", "basic"}
    /\ question = NoQuestion
    /\ score = 0
    /\ isLoading = FALSE
    /\ error = NoError
    /\ selectedAnswer = NULL
    /\ isAnswered = FALSE
    /\ category = NULL
    /\ difficulty = NULL
    /\ timeLeft = TIME_LIMIT
    /\ pending = {}
    /\ issued = 0
    /\ intervals = 0
    /\ cleanup = FALSE
    /\ effectDue = FALSE
    /\ lastEvent = "mount"
    /\ lastFetch = NoFetch
    /\ lastOutcome = NoOutcome
    /\ lastResponse = NoResponse
    /\ prevScore = 0
    /\ delivered = 0

Init ==
    /\ AppInit
    /\ QuizCard_Idle
    /\ SW_Idle

Next ==
    \/ \E c \in Categories : CategorySelect(c)
    \/ \E d \in Difficulty : DifficultySelect(d)
    \/ \E k \in AnswerKey : AnswerSelect(k)
    \/ \E k \in AnswerKey : AnswerSelectAgain(k)
    \/ NextRequested
    \/ ChangeCategoryRequested
    \/ ChangeDifficultyRequested
    \/ Tick
    \/ TimerEffect
    \/ \E f \in pending, o \in ServiceOutcomes : FetchSettle(f, o)
    \/ \E d \in Difficulty : Basic_DifficultySelect(d)
    \/ \E k \in AnswerKey : Basic_AnswerSelect(k)
    \/ \E k \in AnswerKey : Basic_AnswerSelectAgain(k)
    \/ Basic_NextRequested
    \/ Basic_TryAgain
    \/ Basic_ChangeDifficultyRequested
    \/ \E f \in pending, r \in Responses : Basic_FetchSettle(f, r)

Spec == Init /\ [][Next]_vars

\* The category variant alone, with what its scheduling guarantees: React
\* runs a pending effect, and a network call that was started settles.
Category_Init == Init /\ variant = "category"

Category_Next ==
    \/ \E c \in Categories : CategorySelect(c)
    \/ \E d \in Difficulty : DifficultySelect(d)
    \/ \E k \in AnswerKey : AnswerSelect(k)
    \/ \E k \in AnswerKey : AnswerSelectAgain(k)
    \/ NextRequested
    \/ ChangeCategoryRequested
    \/ ChangeDifficultyRequested
    \/ Tick
    \/ TimerEffect
    \/ \E f \in pending, o \in ServiceOutcomes : FetchSettle(f, o)

Category_Fairness ==
    /\ WF_vars(TimerEffect)
    /\ WF_vars(\E f \in pending, o \in ServiceOutcomes : FetchSettle(f, o))

Category_FairSpec == Category_Init /\ [][Category_Next]_vars /\ Category_Fairness

QuizCard_Next ==
    \/ \E p \in QuizCardProps : QuizCard_Render(p)
    \/ \E key \in AnswerKey : QuizCard_Click(key)

QuizCard_Init ==
    /\ AppInit /\ variant = "basic"
    /\ QuizCard_Mounted
    /\ SW_Idle

QuizCard_Spec == QuizCard_Init /\ [][QuizCard_Next]_vars

SW_Next ==
    \/ \E added \in BOOLEAN : SW_Install(added)
    \/ SW_Activate
    \/ \E req \in Requests, net \in NetworkResults : SW_Fetch(req, net)
    \/ \E url \in puts : SW_PutDone(url)

SW_Init ==
    /\ AppInit /\ variant = "category"
    /\ QuizCard_Idle
    /\ SW_Registered

SW_Spec == SW_Init /\ [][SW_Next]_vars

\* ---------------------------------------------------------------- claims
\* C1: the result of a fetch that is no longer the most recently issued
\* one is not applied: when such a call settles, question, timeLeft,
\* isLoading and error keep their values.
C1_StaleFetchDiscarded ==
    [][\A f \in pending :
          (f \notin pending' /\ f.id # issued)
              => UNCHANGED <<question, timeLeft, isLoading, error>>]_vars

\* C2: category variant.  A round becomes answered by exactly one of time
\* up without a selection, a correct selection, an incorrect selection; the
\* score grows by 1 across that step iff the selection is the question's
\* correctAnswer, and no other step increases the score.
C2_Outcomes(sel, q, ev) ==
    {o \in {"timeout", "correct", "incorrect"} :
        \/ o = "timeout" /\ ev = "timeUp" /\ sel = NULL
        \/ o = "correct" /\ ev = "answerSelected" /\ sel = correctAnswerOf(q)
        \/ o = "incorrect" /\ ev = "answerSelected" /\ sel \in AnswerKey \ {correctAnswerOf(q)}}

C2_ScoreIffCorrect ==
    [][variant = "category" =>
          /\ (~isAnswered /\ isAnswered') =>
                /\ question' = question
                /\ Cardinality(C2_Outcomes(selectedAnswer', question, lastEvent')) = 1
                /\ score' = score + (IF selectedAnswer' = correctAnswerOf(question)
                                     THEN 1 ELSE 0)
          /\ (score' > score) => (~isAnswered /\ isAnswered')]_vars

C2_Witness ==
    /\ variant = "category"
    /\ lastEvent = "answerSelected"
    /\ selectedAnswer = correctAnswerOf(question)
    /\ prevScore = 1 /\ score = 2

\* C3: category variant.  Right after a fetch resolves successfully the
\* session awaits the answer to the new question: question is the one
\* delivered, selectedAnswer is absent, isAnswered is false, timeLeft is
\* TIME_LIMIT and isLoading is false.
C3_FreshRoundAfterFetch ==
    (variant = "category" /\ lastEvent = "fetchSucceeded") =>
        /\ question = [lastOutcome.value EXCEPT !.id = lastFetch.id]
        /\ selectedAnswer = NULL
        /\ ~isAnswered
        /\ timeLeft = TIME_LIMIT
        /\ ~isLoading

\* C4: category variant.  timeLeft is decremented only while a question is
\* present, unanswered and not loading; once the round is answered timeLeft
\* changes only by a fetch success; and right after an answer, time up, the
\* start of a fetch, a skip or a reset no interval timer is left to tick.
C4_StopEvents ==
    {"answerSelected", "timeUp", "nextRequested", "difficultySelected",
     "changeDifficultyRequested", "changeCategoryRequested"}

C4_TimerFrozen ==
    [][variant = "category" =>
          /\ (timeLeft' < timeLeft) =>
                (question # NoQuestion /\ ~isAnswered /\ ~isLoading)
          /\ (isAnswered /\ timeLeft' # timeLeft) => lastEvent' = "fetchSucceeded"
          /\ (lastEvent' \in C4_StopEvents) => intervals' = 0]_vars

C4_Witness ==
    /\ variant = "category"
    /\ lastEvent = "answerSelected"
    /\ isAnswered
    /\ timeLeft = 7
    /\ intervals = 0

\* C5: category variant.  When timeLeft is 0 with a question present,
\* unanswered and not loading, the next step marks the round answered, with
\* selectedAnswer absent, the score unchanged, timeLeft still 0 and no
\* interval timer left.
C5_TimeUp ==
    [][(/\ variant = "category"
        /\ timeLeft = 0
        /\ question # NoQuestion /\ ~isAnswered /\ ~isLoading)
          => (/\ isAnswered'
              /\ selectedAnswer' = NULL
              /\ score' = score
              /\ timeLeft' = 0
              /\ intervals' = 0)]_vars

C5_Witness ==
    /\ variant = "category"
    /\ lastEvent = "timeUp"
    /\ isAnswered
    /\ selectedAnswer = NULL
    /\ timeLeft = 0
    /\ score = 1

\* C6: category variant.  While a selection screen is shown (category or
\* difficulty absent) no question is held and no interval timer is live.
C6_SelectionScreenClean ==
    (variant = "category" /\ (category = NULL \/ difficulty = NULL)) =>
        (question = NoQuestion /\ intervals = 0)

\* C7: category variant.  While a fetch is pending, isLoading is true,
\* question, error and selectedAnswer are absent and isAnswered is false.
C7_LoadingWhilePending ==
    (variant = "category" /\ pending # {}) =>
        /\ isLoading
        /\ question = NoQuestion
        /\ error = NoError
        /\ selectedAnswer = NULL
        /\ ~isAnswered

\* C8: both variants.  score is 0 right after categorySelected,
\* difficultySelected, changeDifficultyRequested and changeCategoryRequested.
C8_ResetEvents ==
    {"categorySelected", "difficultySelected", "changeDifficultyRequested",
     "changeCategoryRequested"}

C8_ScoreZeroAfterSelection == (lastEvent \in C8_ResetEvents) => score = 0

\* C8 as amended: as above in the category variant; in the basic variant
\* score is 0 right after difficultySelected, and changeDifficultyRequested
\* leaves the score as it was.
C8_ScoreZeroAmended ==
    /\ (lastEvent \in C8_ResetEvents
            /\ ~(variant = "basic" /\ lastEvent = "changeDifficultyRequested"))
          => score = 0
    /\ (variant = "basic" /\ lastEvent = "changeDifficultyRequested")
          => score = prevScore

C8_Witness ==
    /\ variant = "category"
    /\ lastEvent = "changeDifficultyRequested"
    /\ prevScore = 2
    /\ score = 0

\* the retry control of the variant is rendered and enabled
retryEnabled ==
    IF variant = "category" THEN nextButtonEnabled(Cur) ELSE Basic_tryAgainEnabled(Cur)

\* the calls a click on the retry control would issue
retryCalls ==
    IF variant = "category"
    THEN fetchNewQuestion(Cur).pending \ pending
    ELSE Basic_fetchNewQuestion(Cur).pending \ pending

\* C9: both variants.  Right after a fetch fails, error holds a message,
\* isLoading is false, question is absent and the retry control is enabled
\* and issues a fetch with the difficulty and category of the failed one.
C9_ErrorStateWithRetry ==
    (lastEvent = "fetchFailed") =>
        /\ error # NoError
        /\ ~isLoading
        /\ question = NoQuestion
        /\ retryEnabled
        /\ \E g \in retryCalls :
              g.difficulty = lastFetch.difficulty /\ g.category = lastFetch.category

\* C10: basic variant.  After a non-success response the stored error is
\* exactly the body's error field when there is one, else a message
\* synthesized from the status.
C10_MessageIsServerError ==
    (/\ variant = "basic" /\ lastEvent = "fetchFailed"
     /\ lastResponse.network /\ ~lastResponse.ok)
        => error = (IF lastResponse.parses /\ lastResponse.error # <<>>
                    THEN lastResponse.error
                    ELSE <<"Server responded with status ", ToString(lastResponse.status)>>)

\* C10 as amended: in the basic variant the stored error is
\* "Could not load question. " followed by the body's error field when that
\* is present and non-empty, else followed by "Server responded with status
\* <status>"; in the category variant it is one fixed message whatever the
\* service rejected with.
C10_MessageIsPrefixed ==
    (lastEvent = "fetchFailed") =>
        IF variant = "basic"
        THEN (lastResponse.network /\ ~lastResponse.ok) =>
                error = <<"Could not load question. ">>
                        \o (IF lastResponse.parses /\ lastResponse.error # <<>>
                            THEN lastResponse.error
                            ELSE <<"Server responded with status ",
                                   ToString(lastResponse.status)>>)
        ELSE error = <<"Failed to generate a new question. Please try again.">>

C10_Witness ==
    /\ variant = "basic"
    /\ lastEvent = "fetchFailed"
    /\ lastResponse.status = 500
    /\ lastResponse.error = <<"rate limited">>
    /\ error = <<"Could not load question. ", "rate limited">>

\* C11: basic variant.  For a successful response with a JSON body, a
\* question reaches the session iff the body's question is a non-empty
\* string, options has the four keys A, B, C, D each with non-empty text and
\* correctAnswer is one of A, B, C, D; every other body ends in an error.
C11_WellFormed(d) ==
    /\ d.qType = "string" /\ d.question # ""
    /\ d.oType = "object"
    /\ \A k \in AnswerKey : d.options[k] # ""
    /\ d.correctAnswer \in AnswerKey

C11_AcceptsIffWellFormed ==
    (/\ variant = "basic"
     /\ lastEvent \in {"fetchSucceeded", "fetchFailed"}
     /\ lastResponse.network /\ lastResponse.ok /\ lastResponse.parses)
        => /\ (lastEvent = "fetchSucceeded") <=> C11_WellFormed(lastResponse.data)
           /\ (lastEvent = "fetchSucceeded") =>
                 question = [asTriviaQuestion(lastResponse.data) EXCEPT !.id = lastFetch.id]
           /\ (lastEvent = "fetchFailed") => error # NoError

\* C12: both variants.  An answerSelected(k) event that arrives when the
\* round is already answered leaves selectedAnswer, isAnswered, score and
\* timeLeft as they were, for every key k.
C12_AnswerIdempotent ==
    [][(isAnswered /\ lastEvent' = "answerSelected")
          => UNCHANGED <<selectedAnswer, isAnswered, score, timeLeft>>]_vars

C12_Witness ==
    /\ lastEvent = "answerSelected"
    /\ isAnswered
    /\ selectedAnswer = correctAnswerOf(question)
    /\ prevScore = 1 /\ score = 1

\* C13: category variant.  At most one interval timer is live in every
\* state, and it is the one the last run of the timer effect created: a run
\* clears the previous interval before it creates the next.
C13_OneInterval ==
    (variant = "category") =>
        /\ intervals \in {0, 1}
        /\ cleanup <=> (intervals = 1)

C13_Witness ==
    /\ variant = "category"
    /\ lastEvent = "timerEffect"
    /\ intervals = 1
    /\ timeLeft = 10

\* C14: category variant.  No state is a dead end: whenever category is
\* set Change Category can be clicked and leads to the category screen, and
\* whenever difficulty is set Change Difficulty can be clicked and leads to
\* the difficulty screen.  (While the timer effect of a commit is pending,
\* that effect runs first and the click is handled right after it.)
C14_CanReturnToSelection ==
    (variant = "category") =>
        /\ (category # NULL /\ ~effectDue) =>
              /\ changeCategoryShown(Cur) /\ clickHandled(resetCategory(Cur))
              /\ categoryScreenShown(flushEffects(Cur, resetCategory(Cur)))
        /\ (difficulty # NULL /\ ~effectDue) =>
              /\ changeDifficultyShown(Cur) /\ clickHandled(resetDifficulty(Cur))
              /\ difficultyScreenShown(flushEffects(Cur, resetDifficulty(Cur)))
        /\ (lastEvent = "changeCategoryRequested") => categoryScreenShown(Cur)
        /\ (lastEvent = "changeDifficultyRequested") => difficultyScreenShown(Cur)

C14_Witness ==
    /\ variant = "category"
    /\ lastEvent = "changeCategoryRequested"
    /\ categoryScreenShown(Cur)
    /\ isLoading
    /\ pending # {}

\* C15: once the round is answered, an option's button shows "correct"
\* exactly when it is the correct option (chosen or not), "incorrect"
\* exactly when it is the chosen option and not the correct one, and is
\* faded otherwise, whatever correctAnswer and selectedAnswer (absent
\* included) are; and every button is disabled.  Before that every button
\* is neutral and enabled.
C15_ButtonStates ==
    \A key \in AnswerKey :
        LET b == buttons[key]
            correct == key = props.correctAnswer
            chosen == key = props.selectedAnswer
        IN IF props.isAnswered
           THEN /\ (b.className = "correct") <=> correct
                /\ (b.className = "incorrect") <=> (chosen /\ ~correct)
                /\ (b.className = "faded") <=> (~correct /\ ~chosen)
                /\ b.disabled
           ELSE b.className = "neutral" /\ ~b.disabled

\* The correct option was chosen after an earlier click was delivered:
\* it is drawn as correct, never as incorrect.
C15_Witness ==
    /\ props.isAnswered /\ answerDelivered = "B"
    /\ props.selectedAnswer = "B" /\ props.correctAnswer = "B"
    /\ buttons["B"].className = "correct" /\ buttons["B"].disabled
    /\ buttons["A"].className = "faded"

\* C16: a GET or any other request whose URL contains /api/ is answered
\* from the network, never from a cache, even when a cache holds an entry
\* for it; and no step of the worker adds an entry for such a URL to any
\* cache, or starts a cache write for one.
C16_ApiNeverCached ==
    /\ []((swLast.event = "fetch" /\ urlIncludesApi(swLast.req.url))
            => swLast.source = "network")
    /\ [](\A url \in puts : ~urlIncludesApi(url))
    /\ [][\A n \in DOMAIN caches' : \A url \in caches'[n] :
            urlIncludesApi(url) => (n \in DOMAIN caches /\ url \in caches[n])]_vars

\* An API request was answered by the network with status 200 and the
\* worker holds no cache write for it.
C16_Witness ==
    /\ swLast.event = "fetch" /\ swLast.req = [method |-> "GET", url |-> ApiQuestion]
    /\ swLast.handled /\ swLast.source = "network" /\ swLast.status = 200
    /\ LogoPng \in puts

\* C17 (as stated): a GET request for a URL without /api/ is answered from
\* the cache when an entry for it exists, and otherwise from the network,
\* and then whatever response the network gave is stored in the
\* current-version cache (or its cache write is under way).
C17_CacheFirstStoresResult ==
    (swLast.event = "fetch" /\ swLast.req.method = "GET"
        /\ ~urlIncludesApi(swLast.req.url))
    => IF swLast.hit
       THEN swLast.source = "cache"
       ELSE /\ swLast.source = "network"
            /\ swLast.status # NetworkFailure
                 => \/ swLast.req.url \in puts
                    \/ /\ CACHE_NAME \in DOMAIN caches
                       /\ swLast.req.url \in caches[CACHE_NAME]

\* C17 (amended): such a request is answered from the cache when any cache
\* holds an entry for it, without a network call and without a cache
\* write; otherwise it is answered by the network, and a write into the
\* current-version cache is started exactly when the response has status
\* 200.  The write is not awaited: the entry is in the current-version
\* cache once the write has completed.  No fetch changes a cache itself.
C17_CacheFirstStoresOk ==
    [][/\ (swLast'.event = "fetch" /\ swLast'.req.method = "GET"
             /\ ~urlIncludesApi(swLast'.req.url))
          => /\ caches' = caches
             /\ swLast'.hit <=> cachesMatch(caches, swLast'.req.url)
             /\ IF swLast'.hit
                THEN swLast'.source = "cache" /\ puts' = puts
                ELSE /\ swLast'.source = "network"
                     /\ puts' = IF swLast'.status = 200
                                THEN puts \cup {swLast'.req.url} ELSE puts
       /\ swLast'.event = "put"
          => /\ swLast'.req.url \in puts /\ swLast'.req.url \notin puts'
             /\ caches'[CACHE_NAME] = caches[CACHE_NAME] \cup {swLast'.req.url}]_vars

\* A URL that only a completed cache write can have put into the cache is
\* answered from the cache.
C17_Witness ==
    /\ swLast.event = "fetch" /\ swLast.req = [method |-> "GET", url |-> LogoPng]
    /\ swLast.hit /\ swLast.source = "cache"
    /\ LogoPng \in caches[CACHE_NAME] /\ puts = {}

\* C18: the activate event deletes every cache whose name is not
\* CACHE_NAME and leaves the current-version cache, if there is one, with
\* the entries it had.
C18_ActivateDeletesOld ==
    [][swLast'.event = "activate"
        => /\ DOMAIN caches' = DOMAIN caches \cap {CACHE_NAME}
           /\ \A n \in DOMAIN caches' : caches'[n] = caches[n]]_vars

\* Activation deleted both old caches and kept the current one, with the
\* pre-cached list in it.
C18_Witness ==
    /\ swLast.event = "activate" /\ swLast.deleted = OldCacheNames
    /\ DOMAIN caches = {CACHE_NAME} /\ caches[CACHE_NAME] = urlsToCache

\* C19: in the category variant, whenever the session is loading, it later
\* is not loading and holds a question or an error message, provided
\* started network calls settle and pending effects run.
C19_LoadingEnds ==
    (variant = "category" /\ isLoading)
        ~> (~isLoading /\ (question # NoQuestion \/ error # NoError))

\* The only call in flight has failed: loading is over and the error
\* message is there.
C19_Witness ==
    /\ variant = "category" /\ lastEvent = "fetchFailed" /\ pending = {}
    /\ ~isLoading /\ question = NoQuestion /\ error # NoError

\* C20: in the category variant the score is never negative and never
\* more than the number of calls that were fulfilled since a handler last
\* set the score to 0.
C20_ScoreBounded ==
    (variant = "category") => (0 <= score /\ score <= delivered)

\* Two questions were delivered and both were answered correctly.
C20_Witness ==
    /\ variant = "category" /\ lastEvent = "answerSelected"
    /\ prevScore = 1 /\ score = 2 /\ delivered = 2

\* C21: in the category variant timeLeft is always between 0 and
\* TIME_LIMIT: no tick takes it below 0 and nothing sets it above the limit.
C21_TimeLeftInRange ==
    (variant = "category") => (0 <= timeLeft /\ timeLeft <= TIME_LIMIT)

\* The last tick took timeLeft to 0, and the timer effect that follows
\* has not run yet.
C21_Witness ==
    /\ variant = "category" /\ lastEvent = "tick" /\ timeLeft = 0
    /\ effectDue /\ ~isAnswered
====
